---- MODULE Spec2Model ----
(***************************************************************************)
(* File Permission Analyzer (src/a.py): analyze_file and the Streamlit     *)
(* script that calls it.                                                   *)
(*                                                                         *)
(* Strings that the code builds or inspects character by character (paths, *)
(* the octal and symbolic mode strings, error messages) are sequences of   *)
(* one-character strings; a message prefix is one element.                 *)
(* The filesystem is seen through the one path a call analyses: fs is what *)
(* that path refers to at the moment of a filesystem call.                 *)
(***************************************************************************)
EXTENDS Integers, Sequences, FiniteSets, TLC

VARIABLES
    CAN_GET_NAMES,  \* module global, set once at import (lines 12-18)
    fs,             \* what the analysed path refers to right now
    raw,            \* the argument of analyze_file
    pc,             \* position inside analyze_file
    file_path,      \* local of analyze_file
    info,           \* local of analyze_file: the os.stat result
    results,        \* local of analyze_file, then its return value
    existed,        \* history: what os.path.exists answered
    statCalls,      \* history: os.stat calls made by the current call (line 34)
    prev,           \* history: return value of the previous call
    calls,          \* history: calls of analyze_file started
    spc,            \* position inside the Streamlit script run
    upload,         \* script input: a file was uploaded
    button,         \* script input: the button pressed in this run
    analyze_button, \* script variable
    script_path,    \* script variable file_path (line 155/161/178...)
    tmpfiles,       \* temporary files present on disk
    mine,           \* history: temporary files created by the current run
    finished,       \* history: temporary files created by finished runs
    runs            \* history: script runs started

vars == <<CAN_GET_NAMES, fs, raw, pc, file_path, info, results, existed,
          statCalls, prev, calls, spc, upload, button, analyze_button,
          script_path, tmpfiles, mine, finished, runs>>

avars == <<raw, pc, file_path, info, results, existed, statCalls>>
svars == <<spc, upload, button, analyze_button, script_path, tmpfiles, mine,
           finished, runs>>

----------------------------------------------------------------------------
(* Bounds *)

MaxPathLen == 2   \* longest input string of the enumerated inputs
MaxCalls == 2     \* calls of analyze_file in a row
MaxRuns == 2      \* runs of the Streamlit script

----------------------------------------------------------------------------
(* stat module constants (octal values in the comments) *)

S_IFIFO == 4096     \* 0o010000
S_IFCHR == 8192     \* 0o020000
S_IFDIR == 16384    \* 0o040000
S_IFBLK == 24576    \* 0o060000
S_IFREG == 32768    \* 0o100000
S_IFLNK == 40960    \* 0o120000
S_IFSOCK == 49152   \* 0o140000
S_ISUID == 2048     \* 0o4000
S_ISGID == 1024     \* 0o2000
S_ISVTX == 512      \* 0o1000
S_IRUSR == 256      \* 0o400
S_IWUSR == 128      \* 0o200
S_IXUSR == 64       \* 0o100
S_IRGRP == 32       \* 0o040
S_IWGRP == 16       \* 0o020
S_IXGRP == 8        \* 0o010
S_IROTH == 4        \* 0o004
S_IWOTH == 2        \* 0o002
S_IXOTH == 1        \* 0o001

RECURSIVE BitAnd(_, _)
BitAnd(a, b) ==
    IF a = 0 \/ b = 0 THEN 0
    ELSE (a % 2) * (b % 2) + 2 * BitAnd(a \div 2, b \div 2)

\* bool(mode & bit)
Bit(mode, bit) == BitAnd(mode, bit) # 0

\* stat.S_IMODE(mode): mode & 0o7777
S_IMODE(mode) == BitAnd(mode, 4095)

\* stat.S_IFMT(mode): mode & 0o170000
S_IFMT(mode) == BitAnd(mode, 61440)

S_ISDIR(mode) == S_IFMT(mode) = S_IFDIR

----------------------------------------------------------------------------
(* oct() and stat.filemode() *)

OctDigit == <<"0", "1", "2", "3", "4", "5", "6", "7">>

RECURSIVE OctDigits(_)
OctDigits(n) ==
    IF n < 8 THEN <<OctDigit[n + 1]>>
    ELSE Append(OctDigits(n \div 8), OctDigit[(n % 8) + 1])

\* oct(n) for n >= 0: "0o" and the base-8 digits, no leading zero
Oct(n) == <<"0", "o">> \o OctDigits(n)

\* first character of stat.filemode: the entry type
FileType(mode) ==
    LET t == S_IFMT(mode) IN
    CASE t = S_IFREG -> "-"
      [] t = S_IFDIR -> "d"
      [] t = S_IFLNK -> "l"
      [] t = S_IFBLK -> "b"
      [] t = S_IFCHR -> "c"
      [] t = S_IFIFO -> "p"
      [] t = S_IFSOCK -> "s"
      [] OTHER -> "?"

\* (mutant) upper and lower case exchanged
ExecChar_Swapped(mode, xbit, sbit, lower, upper) ==
    IF BitAnd(mode, xbit + sbit) = xbit + sbit THEN upper
    ELSE IF Bit(mode, sbit) THEN lower
    ELSE IF Bit(mode, xbit) THEN "x"
    ELSE "-"

\* one execute position of stat.filemode: special bit overlays the x
ExecChar(mode, xbit, sbit, lower, upper) ==
    IF BitAnd(mode, xbit + sbit) = xbit + sbit THEN lower
    ELSE IF Bit(mode, sbit) THEN upper
    ELSE IF Bit(mode, xbit) THEN "x"
    ELSE "-"

PermChar(mode, bit, c) == IF Bit(mode, bit) THEN c ELSE "-"

\* stat.filemode(mode)
FileMode(mode) ==
    << FileType(mode),
       PermChar(mode, S_IRUSR, "r"), PermChar(mode, S_IWUSR, "w"),
       ExecChar(mode, S_IXUSR, S_ISUID, "s", "S"),
       PermChar(mode, S_IRGRP, "r"), PermChar(mode, S_IWGRP, "w"),
       ExecChar(mode, S_IXGRP, S_ISGID, "s", "S"),
       PermChar(mode, S_IROTH, "r"), PermChar(mode, S_IWOTH, "w"),
       ExecChar(mode, S_IXOTH, S_ISVTX, "t", "T") >>

----------------------------------------------------------------------------
(* str.strip() and os.path.normpath() (posixpath) *)

IsSpace(c) == c = " "

RECURSIVE LStrip(_)
LStrip(s) ==
    IF s = <<>> THEN s
    ELSE IF IsSpace(Head(s)) THEN LStrip(Tail(s)) ELSE s

RECURSIVE RStrip(_)
RStrip(s) ==
    IF s = <<>> THEN s
    ELSE IF IsSpace(s[Len(s)]) THEN RStrip(SubSeq(s, 1, Len(s) - 1)) ELSE s

Strip(s) == RStrip(LStrip(s))

\* path.split('/'): the components between separators, empty ones kept
RECURSIVE SplitSlash(_, _, _)
SplitSlash(s, cur, acc) ==
    IF s = <<>> THEN Append(acc, cur)
    ELSE IF Head(s) = "/" THEN SplitSlash(Tail(s), <<>>, Append(acc, cur))
    ELSE SplitSlash(Tail(s), Append(cur, Head(s)), acc)

\* the component loop of posixpath.normpath
RECURSIVE NormComps(_, _, _)
NormComps(comps, new, slashes) ==
    IF comps = <<>> THEN new
    ELSE LET comp == Head(comps)
             rest == Tail(comps)
             dotdot == <<".", ".">>
         IN IF comp = <<>> \/ comp = <<".">> THEN NormComps(rest, new, slashes)
            ELSE IF comp # dotdot
                    \/ (slashes = 0 /\ new = <<>>)
                    \/ (new # <<>> /\ new[Len(new)] = dotdot)
                 THEN NormComps(rest, Append(new, comp), slashes)
            ELSE IF new # <<>>
                 THEN NormComps(rest, SubSeq(new, 1, Len(new) - 1), slashes)
            ELSE NormComps(rest, new, slashes)

\* '/'.join(comps)
RECURSIVE JoinSlash(_)
JoinSlash(comps) ==
    IF comps = <<>> THEN <<>>
    ELSE IF Len(comps) = 1 THEN comps[1]
    ELSE comps[1] \o <<"/">> \o JoinSlash(Tail(comps))

StartsWith(s, n) == Len(s) >= n /\ \A i \in 1..n : s[i] = "/"

InitialSlashes(s) ==
    IF ~StartsWith(s, 1) THEN 0
    ELSE IF StartsWith(s, 2) /\ ~StartsWith(s, 3) THEN 2
    ELSE 1

\* os.path.normpath(path)
NormPath(path) ==
    IF path = <<>> THEN <<".">>
    ELSE LET n == InitialSlashes(path)
             joined == JoinSlash(NormComps(SplitSlash(path, <<>>, <<>>), <<>>, n))
             out == [i \in 1..n |-> "/"] \o joined
         IN IF out = <<>> THEN <<".">> ELSE out

----------------------------------------------------------------------------
(* The filesystem entry behind the analysed path, and the identity database *)

Absent == [st |-> "absent"]   \* no entry at the path
Denied == [st |-> "denied"]   \* a parent directory cannot be traversed

\* an os.stat result (size and mtime are the same for every entry modelled)
Entry(mode, uid, gid) ==
    [st |-> "ok", st_mode |-> mode, st_uid |-> uid, st_gid |-> gid,
     st_size |-> 2048, st_mtime |-> 0]

FileTypes == {S_IFREG, S_IFDIR, S_IFCHR, S_IFBLK, S_IFIFO, S_IFSOCK}

\* pwd / grp databases: id 0 resolves, id 4242 has no entry
Passwd == (0 :> "root")
Group == (0 :> "wheel")

\* owner and group of an entry: both resolve, the group does not, the owner
\* does not (the group lookup is then never made)
IdPairs == {<<0, 0>>, <<0, 4242>>, <<4242, 0>>}

\* entries of the concurrent specification: file or directory, 0o644 plus
\* every combination of others-write and sticky, every owner and group
RaceEntries ==
    { Entry(t + 420 + w + s, id[1], id[2]) :
        t \in {S_IFREG, S_IFDIR}, w \in {0, S_IWOTH},
        s \in {0, S_ISVTX}, id \in IdPairs }

\* entries of the decoding specification: every kind, every 12-bit mode
ModeEntries == { Entry(t + p, 0, 0) : t \in FileTypes, p \in 0..4095 }

\* blank, separator, and "." which alone or doubled is a special component
\* and otherwise part of an ordinary name
PathChars == {" ", "/", "."}

\* every string over PathChars of at most MaxPathLen characters
Inputs == UNION { [1..n -> PathChars] : n \in 0..MaxPathLen }

\* os.path.exists(path): False for a missing entry and for any OSError
PathExists(f) == f.st = "ok"

\* os.path.isdir(path): False for a missing entry and for any OSError
IsDir(f) == f.st = "ok" /\ S_ISDIR(f.st_mode)

----------------------------------------------------------------------------
(* analyze_file: the values it builds *)

NoResult == [none |-> TRUE]
NoInfo == [st |-> "none"]

\* results[k] = v
Put(r, k, v) == (k :> v) @@ r

W_WORLD == "Anyone can modify this file/directory!"
W_SETUID == "File runs with special owner privileges"
W_UNSAFE == "Unsafe directory permissions detected!"

\* (mutant) the message leaves the path out
NotFound_NoPath(path) == [error |-> <<"File not found: ">>]

\* return {"error": f"File not found: {file_path}"}
NotFound(path) == [error |-> <<"File not found: ">> \o path]

\* str(e) of the OSError os.stat raises
StatError(f, path) ==
    IF f.st = "denied"
    THEN <<"[Errno 13] Permission denied: ">> \o path
    ELSE <<"[Errno 2] No such file or directory: ">> \o path

\* (mutant) no handler around the body: the exception reaches the caller
Except_Raise(e) == [pc |-> "raised", results |-> NoResult]

\* (mutant) the handler swallows the exception and returns nothing
Except_Swallow(e) == [pc |-> "done", results |-> NoResult]

\* except Exception as e: return {"error": f"Error analyzing file: {str(e)}"}
Except(e) ==
    [pc |-> "done", results |-> [error |-> <<"Error analyzing file: ">> \o e]]

\* datetime.fromtimestamp(t).strftime('%Y-%m-%d %H:%M:%S')
FormatTime(t) == <<"%Y-%m-%d %H:%M:%S", t>>

\* results = {...}, with the answer of os.path.isdir at line 40
Basic(path, st, isd) ==
    [path |-> path,
     type |-> IF isd THEN "Directory" ELSE "File",
     size |-> st.st_size,
     uid |-> st.st_uid,
     gid |-> st.st_gid,
     octal |-> Oct(S_IMODE(st.st_mode)),
     symbolic |-> FileMode(st.st_mode),
     modified |-> FormatTime(st.st_mtime)]

\* the inner try: owner first, then group; a missing id raises KeyError
TryNames(r, pw, gr, uid, gid) ==
    IF uid \notin DOMAIN pw THEN [ok |-> FALSE, r |-> r]
    ELSE LET r1 == Put(r, "owner_name", pw[uid])
         IN IF gid \notin DOMAIN gr THEN [ok |-> FALSE, r |-> r1]
            ELSE [ok |-> TRUE, r |-> Put(r1, "group_name", gr[gid])]

\* (mutant) the handler resets only the name whose lookup came last
NamesExcept_GroupOnly(r) == Put(r, "group_name", "Unknown")

\* the inner except: both names become "Unknown"
NamesExcept(r) == Put(Put(r, "owner_name", "Unknown"), "group_name", "Unknown")

\* lines 50-59
WithNames(r, can, pw, gr, uid, gid) ==
    IF can
    THEN LET t == TryNames(r, pw, gr, uid, gid)
         IN IF t.ok THEN t.r ELSE NamesExcept(t.r)
    ELSE Put(Put(r, "owner_name", "N/A (Windows)"), "group_name", "N/A (Windows)")

\* (mutant) a failed lookup switches name resolution off for later calls
GlobalAfterNames_Sticky(can, resolved) == can /\ resolved

\* analyze_file reads the global CAN_GET_NAMES and never assigns it
GlobalAfterNames(can, resolved) == can

\* lines 62-79
WithFlags(r, mode) ==
    Put(Put(Put(Put(Put(Put(Put(Put(Put(Put(Put(Put(r,
        "owner_read", Bit(mode, S_IRUSR)),
        "owner_write", Bit(mode, S_IWUSR)),
        "owner_execute", Bit(mode, S_IXUSR)),
        "group_read", Bit(mode, S_IRGRP)),
        "group_write", Bit(mode, S_IWGRP)),
        "group_execute", Bit(mode, S_IXGRP)),
        "others_read", Bit(mode, S_IROTH)),
        "others_write", Bit(mode, S_IWOTH)),
        "others_execute", Bit(mode, S_IXOTH)),
        "setuid", Bit(mode, S_ISUID)),
        "setgid", Bit(mode, S_ISGID)),
        "sticky", Bit(mode, S_ISVTX))

\* (mutant) the directory rule forgets the sticky bit
Warnings_NoSticky(mode, isd) ==
    LET w0 == <<>>
        w1 == IF Bit(mode, S_IWOTH) THEN Append(w0, W_WORLD) ELSE w0
        w2 == IF Bit(mode, S_ISUID) THEN Append(w1, W_SETUID) ELSE w1
        w3 == IF isd /\ Bit(mode, S_IWOTH)
              THEN Append(w2, W_UNSAFE) ELSE w2
    IN w3

\* lines 82-88, with the answer of os.path.isdir at line 87
Warnings(mode, isd) ==
    LET w0 == <<>>
        w1 == IF Bit(mode, S_IWOTH) THEN Append(w0, W_WORLD) ELSE w0
        w2 == IF Bit(mode, S_ISUID) THEN Append(w1, W_SETUID) ELSE w1
        w3 == IF isd /\ Bit(mode, S_IWOTH) /\ ~Bit(mode, S_ISVTX)
              THEN Append(w2, W_UNSAFE) ELSE w2
    IN w3

----------------------------------------------------------------------------
(* analyze_file: one action per step between two filesystem calls *)

\* lines 25-26
Normalize ==
    /\ pc = "start"
    /\ file_path' = NormPath(Strip(file_path))
    /\ pc' = "exists"
    /\ UNCHANGED <<CAN_GET_NAMES, fs, raw, info, results, existed, statCalls,
                   prev, calls>>
    /\ UNCHANGED svars

\* lines 29-30
Exists ==
    /\ pc = "exists"
    /\ IF PathExists(fs)
       THEN /\ existed' = "yes"
            /\ pc' = "stat"
            /\ results' = results
       ELSE /\ existed' = "no"
            /\ pc' = "done"
            /\ results' = NotFound(file_path)
    /\ UNCHANGED <<CAN_GET_NAMES, fs, raw, file_path, info, statCalls, prev, calls>>
    /\ UNCHANGED svars

\* lines 34-35, and 94-95 when os.stat raises
Stat ==
    /\ pc = "stat"
    /\ statCalls' = statCalls + 1
    /\ IF fs.st = "ok"
       THEN /\ info' = fs
            /\ pc' = "basic"
            /\ results' = results
       ELSE LET o == Except(StatError(fs, file_path))
            IN /\ info' = info
               /\ pc' = o.pc
               /\ results' = o.results
    /\ UNCHANGED <<CAN_GET_NAMES, fs, raw, file_path, existed, prev, calls>>
    /\ UNCHANGED svars

\* lines 38-47
BasicInfo ==
    /\ pc = "basic"
    /\ results' = Basic(file_path, info, IsDir(fs))
    /\ pc' = "names"
    /\ UNCHANGED <<CAN_GET_NAMES, fs, raw, file_path, info, existed, statCalls,
                   prev, calls>>
    /\ UNCHANGED svars

\* lines 50-59
Names ==
    /\ pc = "names"
    /\ results' = WithNames(results, CAN_GET_NAMES, Passwd, Group,
                            info.st_uid, info.st_gid)
    /\ CAN_GET_NAMES' = GlobalAfterNames(CAN_GET_NAMES,
                            info.st_uid \in DOMAIN Passwd
                            /\ info.st_gid \in DOMAIN Group)
    /\ pc' = "flags"
    /\ UNCHANGED <<fs, raw, file_path, info, existed, statCalls, prev, calls>>
    /\ UNCHANGED svars

\* lines 62-79
Flags ==
    /\ pc = "flags"
    /\ results' = WithFlags(results, info.st_mode)
    /\ pc' = "warn"
    /\ UNCHANGED <<CAN_GET_NAMES, fs, raw, file_path, info, existed, statCalls,
                   prev, calls>>
    /\ UNCHANGED svars

\* lines 82-92
Warn ==
    /\ pc = "warn"
    /\ results' = Put(results, "warnings", Warnings(info.st_mode, IsDir(fs)))
    /\ pc' = "done"
    /\ UNCHANGED <<CAN_GET_NAMES, fs, raw, file_path, info, existed, statCalls,
                   prev, calls>>
    /\ UNCHANGED svars

AnalyzeNext ==
    Normalize \/ Exists \/ Stat \/ BasicInfo \/ Names \/ Flags \/ Warn

----------------------------------------------------------------------------
(* Other processes acting on the analysed path while a call is running *)

\* A change of the entry is seen by the call only at its next filesystem call
\* (os.path.exists, os.stat, os.path.isdir twice), so it is taken right before one.
Running == pc \in {"exists", "stat", "basic", "warn"}

\* unlink / rmdir
FsRemove ==
    /\ Running
    /\ fs.st = "ok"
    /\ fs' = Absent
    /\ UNCHANGED <<CAN_GET_NAMES, prev, calls>>
    /\ UNCHANGED avars
    /\ UNCHANGED svars

\* a parent directory loses its search permission
FsDeny ==
    /\ Running
    /\ fs.st = "ok"
    /\ fs' = Denied
    /\ UNCHANGED <<CAN_GET_NAMES, prev, calls>>
    /\ UNCHANGED avars
    /\ UNCHANGED svars

\* create, chmod, chown, or replace the entry by another one
FsReplace ==
    /\ Running
    /\ \E e \in RaceEntries : e # fs /\ fs' = e
    /\ UNCHANGED <<CAN_GET_NAMES, prev, calls>>
    /\ UNCHANGED avars
    /\ UNCHANGED svars

----------------------------------------------------------------------------
(* A caller that calls analyze_file again with the same argument *)

CallAgain ==
    /\ pc = "done"
    /\ calls < MaxCalls
    /\ prev' = results
    /\ calls' = calls + 1
    /\ pc' = "start"
    /\ file_path' = raw
    /\ info' = NoInfo
    /\ results' = NoResult
    /\ existed' = "unknown"
    /\ statCalls' = 0
    /\ UNCHANGED <<CAN_GET_NAMES, fs, raw>>
    /\ UNCHANGED svars

----------------------------------------------------------------------------
(* The Streamlit script: one run per user interaction (lines 140-342) *)

Buttons == {"none", "analyze", "cwd", "home", "tmp", "passwd"}

\* script_path is file_path of the script: <<>> is None, <<p>> the string p
Truthy(sp) == sp # <<>> /\ sp[1] # <<>>

\* tmp_file.name of the n-th temporary file
TmpName(n) == <<"/", "t", "m", "p", "/", "t", "m", "p", OctDigit[n + 1]>>

\* a temporary file as NamedTemporaryFile creates it: regular, 0o600
TmpEntry == Entry(S_IFREG + S_IRUSR + S_IWUSR, 0, 0)

\* what a server path may refer to
ServerEntries ==
    {Absent, Entry(S_IFDIR + 493, 0, 0), Entry(S_IFREG + 420, 0, 4242)}

\* the path a quick-access button sets (lines 185-199)
QuickPath(b) ==
    CASE b = "cwd" -> <<".">>
      [] b = "home" -> <<"/", "r", "o", "o", "t">>
      [] b = "tmp" -> <<"/", "t", "m", "p">>
      [] b = "passwd" -> <<"/", "e", "t", "c", "/", "p", "a", "s", "s", "w", "d">>

\* a user interaction starts a run of the script
ScriptRun ==
    /\ spc = "idle"
    /\ runs < MaxRuns
    /\ runs' = runs + 1
    /\ upload' \in BOOLEAN
    /\ button' \in Buttons
    /\ spc' = "tab1"
    /\ UNCHANGED <<analyze_button, script_path, tmpfiles, mine, finished>>
    /\ UNCHANGED <<CAN_GET_NAMES, fs, prev, calls>>
    /\ UNCHANGED avars

\* lines 150-161
Tab1 ==
    /\ spc = "tab1"
    /\ IF upload
       THEN /\ tmpfiles' = tmpfiles \cup {runs}
            /\ mine' = {runs}
            /\ script_path' = <<TmpName(runs)>>
            /\ analyze_button' = TRUE
       ELSE /\ analyze_button' = FALSE
            /\ script_path' = <<>>
            /\ mine' = {}
            /\ tmpfiles' = tmpfiles
    /\ spc' = "tab2"
    /\ UNCHANGED <<upload, button, finished, runs>>
    /\ UNCHANGED <<CAN_GET_NAMES, fs, prev, calls>>
    /\ UNCHANGED avars

\* lines 163-199
Tab2 ==
    /\ spc = "tab2"
    /\ IF button = "none"
       THEN UNCHANGED <<script_path, analyze_button>>
       ELSE /\ analyze_button' = TRUE
            /\ IF button = "analyze"
               THEN \E server_path \in Inputs : script_path' = <<server_path>>
               ELSE script_path' = <<QuickPath(button)>>
    /\ spc' = "gate"
    /\ UNCHANGED <<upload, button, tmpfiles, mine, finished, runs>>
    /\ UNCHANGED <<CAN_GET_NAMES, fs, prev, calls>>
    /\ UNCHANGED avars

\* lines 204-205: the call of analyze_file, or nothing to analyse
Gate ==
    /\ spc = "gate"
    /\ IF analyze_button \/ Truthy(script_path)
       THEN /\ spc' = "analyzing"
            /\ raw' = script_path[1]
            /\ file_path' = script_path[1]
            /\ pc' = "start"
            /\ info' = NoInfo
            /\ results' = NoResult
            /\ existed' = "unknown"
            /\ statCalls' = 0
            /\ IF \E n \in 1..runs : script_path[1] = TmpName(n)
               THEN fs' = IF \E n \in tmpfiles : script_path[1] = TmpName(n)
                          THEN TmpEntry ELSE Absent
               ELSE fs' \in ServerEntries
       ELSE /\ spc' = "footer"
            /\ UNCHANGED <<fs, raw, file_path, pc, info, results, existed, statCalls>>
    /\ UNCHANGED <<upload, button, analyze_button, script_path, tmpfiles, mine,
                   finished, runs>>
    /\ UNCHANGED <<CAN_GET_NAMES, prev, calls>>

\* lines 207-334: st.error, or the sections of the report
Display ==
    /\ spc = "analyzing"
    /\ pc = "done"
    /\ spc' = "footer"
    /\ UNCHANGED <<upload, button, analyze_button, script_path, tmpfiles, mine,
                   finished, runs>>
    /\ UNCHANGED <<CAN_GET_NAMES, fs, prev, calls>>
    /\ UNCHANGED avars

\* lines 336-342: the run ends; nothing in the script removes a file
Footer ==
    /\ spc = "footer"
    /\ spc' = "idle"
    /\ finished' = finished \cup mine
    /\ mine' = {}
    /\ pc' = "idle"
    /\ UNCHANGED <<upload, button, analyze_button, script_path, tmpfiles, runs>>
    /\ UNCHANGED <<CAN_GET_NAMES, fs, prev, calls>>
    /\ UNCHANGED <<raw, file_path, info, results, existed, statCalls>>

----------------------------------------------------------------------------
(* Specifications *)

ScriptOff ==
    /\ spc = "off"
    /\ upload = FALSE
    /\ button = "none"
    /\ analyze_button = FALSE
    /\ script_path = <<>>
    /\ tmpfiles = {}
    /\ mine = {}
    /\ finished = {}
    /\ runs = 0

CallStart ==
    /\ pc = "start"
    /\ file_path = raw
    /\ info = NoInfo
    /\ results = NoResult
    /\ existed = "unknown"
    /\ statCalls = 0
    /\ prev = NoResult
    /\ calls = 1

\* one call of analyze_file, other processes changing the entry meanwhile
Init ==
    /\ CAN_GET_NAMES \in BOOLEAN
    /\ fs \in RaceEntries \cup {Absent, Denied}
    /\ raw \in Inputs
    /\ CallStart
    /\ ScriptOff

Next == AnalyzeNext \/ FsRemove \/ FsDeny \/ FsReplace

Spec == Init /\ [][Next]_vars

\* one call of analyze_file on an entry nobody else touches, every mode
InitMode ==
    /\ CAN_GET_NAMES \in BOOLEAN
    /\ fs \in ModeEntries \cup {Absent}
    /\ raw = <<".">>
    /\ CallStart
    /\ ScriptOff

NextMode == AnalyzeNext

SpecMode == InitMode /\ [][NextMode]_vars

\* calls in a row with the same argument, nobody else touching the entry
\* or the identity database
InitQuiet == Init

NextQuiet == AnalyzeNext \/ CallAgain

SpecQuiet == InitQuiet /\ [][NextQuiet]_vars

\* runs of the Streamlit script
InitUpload ==
    /\ CAN_GET_NAMES = TRUE
    /\ fs = Absent
    /\ raw = <<>>
    /\ pc = "idle"
    /\ file_path = <<>>
    /\ info = NoInfo
    /\ results = NoResult
    /\ existed = "unknown"
    /\ statCalls = 0
    /\ prev = NoResult
    /\ calls = 1
    /\ spc = "idle"
    /\ upload = FALSE
    /\ button = "none"
    /\ analyze_button = FALSE
    /\ script_path = <<>>
    /\ tmpfiles = {}
    /\ mine = {}
    /\ finished = {}
    /\ runs = 0

NextUpload ==
    ScriptRun \/ Tab1 \/ Tab2 \/ Gate \/ AnalyzeNext \/ Display \/ Footer

SpecUpload == InitUpload /\ [][NextUpload]_vars

----------------------------------------------------------------------------
(* Vocabulary of the properties *)

ResultKeys ==
    {"path", "type", "size", "uid", "gid", "octal", "symbolic", "modified",
     "owner_name", "group_name",
     "owner_read", "owner_write", "owner_execute",
     "group_read", "group_write", "group_execute",
     "others_read", "others_write", "others_execute",
     "setuid", "setgid", "sticky", "warnings"}

IsError(r) == DOMAIN r = {"error"}
IsComplete(r) == DOMAIN r = ResultKeys

Returned == pc = "done"

\* bit k of n, by division
NthBit(n, k) == (n \div (2 ^ k)) % 2 = 1

RECURSIVE ParseOct(_)
ParseOct(d) ==
    IF d = <<>> THEN 0
    ELSE 8 * ParseOct(SubSeq(d, 1, Len(d) - 1))
         + (CHOOSE v \in 0..7 : OctDigit[v + 1] = d[Len(d)])

----------------------------------------------------------------------------
(* C1 *)

\* C1: for every input string analyze_file never lets an exception reach
\* its caller, and what it returns is either a record with the single key
\* "error" or a record with exactly the result keys, never both, never less.
C1_ErrorOrCompleteResult ==
    /\ pc # "raised"
    /\ Returned => (IsError(results) \/ IsComplete(results))
    /\ Returned => ~(IsError(results) /\ IsComplete(results))

\* a complete result for an input that normalization changed
C1_Witness ==
    /\ Returned
    /\ IsComplete(results)
    /\ raw # results.path
    /\ Len(raw) = MaxPathLen

----------------------------------------------------------------------------
(* C2 *)

\* C2: when os.path.exists answers False for the normalized path, the call
\* returns the record whose only key is "error", with the message
\* "File not found: " followed by the normalized path, and has made no
\* os.stat call.
C2_NotFound ==
    (Returned /\ existed = "no") =>
        /\ results = [error |-> <<"File not found: ">> \o NormPath(Strip(raw))]
        /\ statCalls = 0
        /\ info = NoInfo

\* a missing entry under a path that normalization changed
C2_Witness ==
    /\ Returned
    /\ existed = "no"
    /\ fs = Absent
    /\ raw = <<"/", ".">>
    /\ results.error = <<"File not found: ", "/">>

----------------------------------------------------------------------------
(* C3 *)

\* C3: once the existence check has passed, whatever other processes do to
\* the entry before the later filesystem calls, the call ends by returning
\* either "Error analyzing file: " with the description of the OSError that
\* os.stat raised, or a complete result; no exception reaches the caller.
C3_RemovalIsHandled ==
    /\ pc # "raised"
    /\ (Returned /\ existed = "yes") =>
          \/ IsComplete(results)
          \/ /\ info = NoInfo
             /\ \E f \in {Absent, Denied} :
                   results = [error |-> <<"Error analyzing file: ">>
                                          \o StatError(f, file_path)]

\* the entry went away between os.path.exists and os.stat
C3_Witness ==
    /\ Returned
    /\ existed = "yes"
    /\ statCalls = 1
    /\ fs = Absent
    /\ IsError(results)

----------------------------------------------------------------------------
(* C4 *)

\* a database in which every id resolves
TotalPasswd == (0 :> "root" @@ 4242 :> "alice")
TotalGroup == (0 :> "wheel" @@ 4242 :> "staff")

WithoutNames(r) == [k \in DOMAIN r \ {"owner_name", "group_name"} |-> r[k]]

\* C4: after a successful os.stat the call never returns an error because
\* of name resolution; owner_name and group_name are both the resolved
\* names or both the same marker ("Unknown", "N/A (Windows)"); every other
\* field is what the same call yields with a database resolving every id.
C4_NamesDegradeTogether ==
    (pc \in {"flags", "warn", "done"} /\ info # NoInfo) =>
        /\ ~IsError(results)
        /\ {"owner_name", "group_name"} \subseteq DOMAIN results
        /\ \/ /\ CAN_GET_NAMES
              /\ info.st_uid \in DOMAIN Passwd
              /\ info.st_gid \in DOMAIN Group
              /\ results.owner_name = Passwd[info.st_uid]
              /\ results.group_name = Group[info.st_gid]
           \/ /\ CAN_GET_NAMES
              /\ info.st_uid \notin DOMAIN Passwd \/ info.st_gid \notin DOMAIN Group
              /\ results.owner_name = "Unknown"
              /\ results.group_name = "Unknown"
           \/ /\ ~CAN_GET_NAMES
              /\ results.owner_name = "N/A (Windows)"
              /\ results.group_name = "N/A (Windows)"
        /\ Returned =>
              /\ IsComplete(results)
              /\ WithoutNames(results) =
                    WithoutNames(
                      Put(WithFlags(
                            WithNames(Basic(file_path, info,
                                            results.type = "Directory"),
                                      TRUE, TotalPasswd, TotalGroup,
                                      info.st_uid, info.st_gid),
                            info.st_mode),
                          "warnings", results.warnings))

\* the owner resolved, the group did not: both names are the marker
C4_Witness ==
    /\ Returned
    /\ IsComplete(results)
    /\ info.st_uid \in DOMAIN Passwd
    /\ info.st_gid \notin DOMAIN Group
    /\ results.owner_name = "Unknown"
    /\ results.group_name = "Unknown"

----------------------------------------------------------------------------
(* C5 *)

Keep(cond, w) == IF cond THEN <<w>> ELSE <<>>

\* C5: for every mode and kind of an entry nobody else touches, the warning
\* list is the subsequence of [world-writable, elevated-privilege, unsafe
\* directory] selected by: others-write; setuid; directory and others-write
\* and not sticky.
C5_WarningsSelected ==
    (Returned /\ IsComplete(results)) =>
        LET m == fs.st_mode
            ow == NthBit(m, 1)
            suid == NthBit(m, 11)
            sticky == NthBit(m, 9)
            dir == (m \div 4096) = 4
        IN /\ results.warnings =
                Keep(ow, W_WORLD) \o Keep(suid, W_SETUID)
                \o Keep(dir /\ ow /\ ~sticky, W_UNSAFE)
           /\ (~dir /\ ow /\ m % 4096 < 512) => results.warnings = <<W_WORLD>>
           /\ (dir /\ ow /\ sticky) => W_UNSAFE \notin
                 {results.warnings[i] : i \in DOMAIN results.warnings}
           /\ suid => W_SETUID \in
                 {results.warnings[i] : i \in DOMAIN results.warnings}

\* a world-writable sticky directory with setuid: two warnings, no third
C5_Witness ==
    /\ Returned
    /\ IsComplete(results)
    /\ results.type = "Directory"
    /\ results.others_write
    /\ results.sticky
    /\ results.warnings = <<W_WORLD, W_SETUID>>

----------------------------------------------------------------------------
(* C6 *)

\* C6: the type field of a returned result is "File" for a regular file,
\* "Directory" for a directory, and neither of the two for any other kind
\* of entry.
C6_KindClassifiesEntry ==
    (Returned /\ IsComplete(results)) =>
        LET t == S_IFMT(fs.st_mode)
        IN /\ t = S_IFREG => results.type = "File"
           /\ t = S_IFDIR => results.type = "Directory"
           /\ t \notin {S_IFREG, S_IFDIR} =>
                 results.type \notin {"File", "Directory"}

----------------------------------------------------------------------------
(* C7 *)

\* C7: no temporary file created by a finished script run still exists.
C7_TempFilesRemoved == \A t \in finished : t \notin tmpfiles

----------------------------------------------------------------------------
(* C8 *)

RwxLetter == <<"r", "w", "x">>
LowerSpecial == <<"s", "s", "t">>
UpperSpecial == <<"S", "S", "T">>

\* character i (1..9) of the permission part, for the low 12 bits p
SymbolicChar(p, i) ==
    LET set == NthBit(p, 9 - i)
        j == i \div 3
    IN IF i % 3 # 0 THEN (IF set THEN RwxLetter[i % 3] ELSE "-")
       ELSE IF NthBit(p, 12 - j)
            THEN (IF set THEN LowerSpecial[j] ELSE UpperSpecial[j])
            ELSE (IF set THEN "x" ELSE "-")

FlagNames ==
    <<"owner_read", "owner_write", "owner_execute",
      "group_read", "group_write", "group_execute",
      "others_read", "others_write", "others_execute">>

\* C8: the octal string, the symbolic string and the twelve flags of one
\* result all describe the low 12 bits of the mode os.stat returned.
C8_EncodingsAgree ==
    (Returned /\ IsComplete(results)) =>
        LET p == info.st_mode % 4096
            o == results.octal
            digits == SubSeq(o, 3, Len(o))
            sym == results.symbolic
        IN /\ Len(o) >= 3 /\ o[1] = "0" /\ o[2] = "o"
           /\ \A i \in 1..Len(digits) : \E v \in 0..7 : OctDigit[v + 1] = digits[i]
           /\ Len(digits) > 1 => digits[1] # "0"
           /\ ParseOct(digits) = p
           /\ \A i \in 1..9 : results[FlagNames[i]] = NthBit(p, 9 - i)
           /\ results.setuid = NthBit(p, 11)
           /\ results.setgid = NthBit(p, 10)
           /\ results.sticky = NthBit(p, 9)
           /\ Len(sym) = 10
           /\ \A i \in 1..9 : sym[i + 1] = SymbolicChar(p, i)
           /\ (info.st_mode = S_IFREG + 493) =>
                 sym = <<"-", "r", "w", "x", "r", "-", "x", "r", "-", "x">>
           /\ (info.st_mode = S_IFREG + 420) =>
                 sym = <<"-", "r", "w", "-", "r", "-", "-", "r", "-", "-">>

\* 0o5644: setuid and sticky without the execute bits
C8_Witness ==
    /\ Returned
    /\ IsComplete(results)
    /\ results.octal = <<"0", "o", "5", "6", "4", "4">>
    /\ results.symbolic = <<"-", "r", "w", "S", "r", "-", "-", "r", "-", "T">>
    /\ results.setuid /\ results.sticky /\ ~results.owner_execute

----------------------------------------------------------------------------
(* C9 *)

\* C9: a second call with the same argument, the entry and the identity
\* database unchanged, returns what the first call returned.
C9_SameResultAgain ==
    (Returned /\ calls > 1) => results = prev

\* the second call returned a complete result with unresolved names
C9_Witness ==
    /\ Returned
    /\ calls = MaxCalls
    /\ IsComplete(results)
    /\ results.owner_name = "Unknown"
    /\ results = prev

----------------------------------------------------------------------------
(* C10 *)

\* C10: a returned result describes one snapshot of the entry: type is
\* "Directory" exactly when the symbolic string begins with 'd', and the
\* unsafe-directory warning is present exactly when type is "Directory",
\* others_write is true and sticky is false.
C10_OneSnapshot ==
    (Returned /\ IsComplete(results)) =>
        /\ (results.type = "Directory") <=> (results.symbolic[1] = "d")
        /\ (W_UNSAFE \in {results.warnings[i] : i \in DOMAIN results.warnings})
              <=> (/\ results.type = "Directory"
                   /\ results.others_write
                   /\ ~results.sticky)

====
